---- MODULE Spec2Model ----
(***************************************************************************)
(* Model of src/main.py: the Excel question-matrix validator (rule engine, *)
(* report generator) and its table of temporary downloads (DOWNLOADS).     *)
(*                                                                         *)
(* Spec   : requests are served one at a time; every action is one whole   *)
(*          handler (validar_excel, download_token) or a clock advance.    *)
(* SpecC  : validar_excel runs on the event-loop thread, download_token on *)
(*          worker threads; the steps on the shared table interleave.      *)
(***************************************************************************)
EXTENDS Integers, Sequences, FiniteSets, TLC

VARIABLES
    DOWNLOADS,  \* the table of downloads
    now,        \* the wall clock, in seconds
    call,       \* the request served last: its input, the clock and the
                \* table when it began, the clock when it answered
    resp,       \* the response to that request
    issued,     \* the tokens register_download returned so far, in order,
                \* each with the data it was given
    th,         \* the threads of SpecC
    eng         \* SpecR: a sheet and what the rule engine and the report
                \* generator have computed from it so far

vars == <<DOWNLOADS, now, call, resp, issued, th, eng>>

----------------------------------------------------------------------------
(* Bounds of the model *)

\* the wall clock advances in steps of ClockStep seconds, up to MaxTime
ClockStep == 300
MaxTime == 900
\* at most MaxRegs artifacts are registered in one run
MaxRegs == 2
\* the worker threads of SpecC serve at most MaxDownloads downloads each
MaxDownloads == 1

(* Program constants *)

DOWNLOAD_TTL_SECS == 600
TXT_MEDIA_TYPE == "text/plain"

\* the values secrets.token_urlsafe(16) may return
Tokens == {"tokA", "tokB"}

----------------------------------------------------------------------------
(* Text: a str is a sequence of one-character strings *)

S_Capitulo == <<"C", "a", "p", "i", "t", "u", "l", "o">>
S_Subcapitulo == <<"S", "u", "b", "c", "a", "p", "i", "t", "u", "l", "o">>
S_Preguntas == <<"P", "r", "e", "g", "u", "n", "t", "a", "s">>

ENCABEZADOS_ESPERADOS == <<S_Capitulo, S_Subcapitulo, S_Preguntas>>

CARACTERES_PROHIBIDOS ==
    {"!", "@", "#", "$", "%", "&", "/", "(", ")", "=", "¡", "¨", "*", "[",
     "]", ";", ":", "_", "°", "|", "¬"}

Whitespace == {" ", "\t", "\n"}

RECURSIVE lstrip(_)
lstrip(s) ==
    IF s # <<>> /\ Head(s) \in Whitespace THEN lstrip(Tail(s)) ELSE s

RECURSIVE rstrip(_)
rstrip(s) ==
    IF s # <<>> /\ s[Len(s)] \in Whitespace
    THEN rstrip(SubSeq(s, 1, Len(s) - 1))
    ELSE s

\* str.strip()
strip(s) == rstrip(lstrip(s))

\* cell values: None, a number, or a str
None == [t |-> "None"]
Num(n) == [t |-> "int", v |-> n]
Str(s) == [t |-> "str", v |-> s]

\* Python truthiness of a cell value: None, 0 and "" are false
Truthy(val) ==
    CASE val.t = "None" -> FALSE
      [] val.t = "int" -> val.v # 0
      [] val.t = "str" -> val.v # <<>>

Digits == <<"0", "1", "2", "3", "4", "5", "6", "7", "8", "9">>

\* str(n) for a natural number n
RECURSIVE str_int(_)
str_int(n) ==
    IF n < 10 THEN <<Digits[n + 1]>>
    ELSE str_int(n \div 10) \o <<Digits[(n % 10) + 1]>>

\* str(value) of a truthy cell value
str(val) == IF val.t = "int" THEN str_int(val.v) ELSE val.v

----------------------------------------------------------------------------
(* The sheet: a sequence of rows, each a sequence of cell values; rows and *)
(* columns count from 1, sheet.max_row = Len(sheet)                        *)

ColLetters == <<"A", "B", "C", "D">>

max_row(sheet) == Len(sheet)
max_column(sheet) == Len(sheet[1])

\* cell.coordinate, e.g. A1
Coordinate(col, row) == <<ColLetters[col], row>>

\* sheet["<col><row>"].value; a cell outside the stored area reads as None
CellValue(sheet, col, row) ==
    IF row <= max_row(sheet) /\ col <= max_column(sheet)
    THEN sheet[row][col]
    ELSE None

----------------------------------------------------------------------------
(* Rule engine *)

\* the value of a row-1 cell as validar_encabezados reads it
HeaderValor(sheet, col) ==
    LET v == CellValue(sheet, col, 1)
    IN  IF Truthy(v) THEN strip(str(v)) ELSE <<>>

ErrEncabezado(col, esperado, valor) ==
    [msg |-> "Celda {} debería contener '{}', pero tiene '{}'",
     celda |-> Coordinate(col, 1), esperado |-> esperado, valor |-> valor]

\* EncabezadosFrom leaving the loop at the first mismatch
EncabezadosFrom_stop_at_first(sheet, col) ==
    LET bad == {c \in col..Len(ENCABEZADOS_ESPERADOS) :
                  HeaderValor(sheet, c) # ENCABEZADOS_ESPERADOS[c]}
    IN  IF bad = {} THEN <<>>
        ELSE LET c == CHOOSE x \in bad : \A y \in bad : x <= y
             IN  <<ErrEncabezado(c, ENCABEZADOS_ESPERADOS[c], HeaderValor(sheet, c))>>

\* the loop over zip(['A','B','C'], ENCABEZADOS_ESPERADOS) from column col on
RECURSIVE EncabezadosFrom(_, _)
EncabezadosFrom(sheet, col) ==
    IF col > Len(ENCABEZADOS_ESPERADOS) THEN <<>>
    ELSE LET esperado == ENCABEZADOS_ESPERADOS[col]
             valor == HeaderValor(sheet, col)
             here == IF valor # esperado
                     THEN <<ErrEncabezado(col, esperado, valor)>>
                     ELSE <<>>
         IN  here \o EncabezadosFrom(sheet, col + 1)

validar_encabezados(sheet) == EncabezadosFrom(sheet, 1)

\* preguntas[valor].append(row) on the insertion-ordered defaultdict(list),
\* kept as a sequence of [k, v] items
AppendPregunta(preguntas, valor, row) ==
    IF \E i \in 1..Len(preguntas) : preguntas[i].k = valor
    THEN [i \in 1..Len(preguntas) |->
            IF preguntas[i].k = valor
            THEN [k |-> valor, v |-> Append(preguntas[i].v, row)]
            ELSE preguntas[i]]
    ELSE Append(preguntas, [k |-> valor, v |-> <<row>>])

\* the loop over range(2, sheet.max_row + 1) from row on
RECURSIVE PreguntasFrom(_, _, _)
PreguntasFrom(sheet, row, preguntas) ==
    IF row > max_row(sheet) THEN preguntas
    ELSE LET valor == CellValue(sheet, 3, row)
         IN  PreguntasFrom(sheet, row + 1,
                 IF Truthy(valor)
                 THEN AppendPregunta(preguntas, strip(str(valor)), row)
                 ELSE preguntas)

ErrDuplicada(k, v) ==
    [msg |-> "Pregunta duplicada en filas {}: '{}'", filas |-> v, pregunta |-> k]

\* [... for k, v in preguntas.items() if len(v) > 1]
RECURSIVE DuplicadasDe(_)
DuplicadasDe(preguntas) ==
    IF preguntas = <<>> THEN <<>>
    ELSE LET it == Head(preguntas)
         IN  (IF Len(it.v) > 1 THEN <<ErrDuplicada(it.k, it.v)>> ELSE <<>>)
             \o DuplicadasDe(Tail(preguntas))

buscar_preguntas_duplicadas(sheet) ==
    DuplicadasDe(PreguntasFrom(sheet, 2, <<>>))

\* PrimerProhibido without the break: the last forbidden character wins
PrimerProhibido_rightmost(s, i) ==
    LET hits == {k \in i..Len(s) : s[k] \in CARACTERES_PROHIBIDOS}
    IN  IF hits = {} THEN 0 ELSE CHOOSE k \in hits : \A j \in hits : j <= k

\* for c in cell.value: the first forbidden character from position i on,
\* or 0 when the scan finds none
RECURSIVE PrimerProhibido(_, _)
PrimerProhibido(s, i) ==
    IF i > Len(s) THEN 0
    ELSE IF s[i] \in CARACTERES_PROHIBIDOS THEN i
    ELSE PrimerProhibido(s, i + 1)

ErrProhibido(col, row, c, texto) ==
    [msg |-> "Celda {} contiene caracter prohibido '{}' en: '{}'",
     celda |-> Coordinate(col, row), caracter |-> c, texto |-> texto]

\* the body of the loops of buscar_caracteres_prohibidos for one cell
ProhibidosCelda(sheet, col, row) ==
    LET val == sheet[row][col]
    IN  IF Truthy(val) /\ val.t = "str"
        THEN LET i == PrimerProhibido(val.v, 1)
             IN  IF i > 0 THEN <<ErrProhibido(col, row, val.v[i], val.v)>>
                 ELSE <<>>
        ELSE <<>>

\* sheet.iter_rows(min_row=1, max_row=sheet.max_row), row by row and cell
\* by cell, from the cell (col, row) on
RECURSIVE ProhibidosFrom(_, _, _)
ProhibidosFrom(sheet, col, row) ==
    IF row > max_row(sheet) THEN <<>>
    ELSE IF col > max_column(sheet) THEN ProhibidosFrom(sheet, 1, row + 1)
    ELSE ProhibidosCelda(sheet, col, row) \o ProhibidosFrom(sheet, col + 1, row)

buscar_caracteres_prohibidos(sheet) == ProhibidosFrom(sheet, 1, 1)

----------------------------------------------------------------------------
(* Report generator *)

\* strftime("%Y%m%d_%H%M%S") of the clock reading t (one text per second)
strftime(t) == <<"%Y%m%d_%H%M%S", t>>

\* str.lower() on the letters file names are built from
LowerChar(c) ==
    CASE c = "X" -> "x" [] c = "L" -> "l" [] c = "S" -> "s" [] c = "M" -> "m"
      [] OTHER -> c

lower(s) == [i \in 1..Len(s) |-> LowerChar(s[i])]

endswith(s, suf) ==
    /\ Len(s) >= Len(suf)
    /\ SubSeq(s, Len(s) - Len(suf) + 1, Len(s)) = suf

\* position of the last occurrence of c in s, 0 when there is none
RECURSIVE rfind(_, _, _)
rfind(s, c, i) ==
    IF i = 0 THEN 0 ELSE IF s[i] = c THEN i ELSE rfind(s, c, i - 1)

\* os.path.basename: what follows the last "/"
basename(p) == SubSeq(p, rfind(p, "/", Len(p)) + 1, Len(p))

\* the first index of p that is not a leading dot
RECURSIVE SkipDots(_, _)
SkipDots(p, i) ==
    IF i <= Len(p) /\ p[i] = "." THEN SkipDots(p, i + 1) ELSE i

\* os.path.splitext(p)[0]: cut at the last dot, unless that dot belongs to
\* the leading dots of the name
splitext_root(p) ==
    LET dot == rfind(p, ".", Len(p))
    IN  IF dot > 0 /\ SkipDots(p, 1) < dot
        THEN SubSeq(p, 1, dot - 1)
        ELSE p

LINEA_EXITOSA == "U+2705 VALIDACIÓN EXITOSA: No se encontraron errores."
LINEA_FALLIDA == "U+274C VALIDACIÓN FALLIDA: Se encontraron errores:"

\* generar_reporte (U+2705 and U+274C stand for the two status glyphs):
\* the text is kept as the sequence of the pieces written, each ended by
\* the "\n" the generator writes after it (the failure header is followed
\* by "\n\n": the header and an empty piece); a finding is written as its
\* message, which holds the cell's text and with it any line break of that
\* text; the file name is kept as the parts of the f-string
generar_reporte(errores, nombre_archivo, t) ==
    [data |-> IF errores = <<>>
              THEN <<LINEA_EXITOSA>>
              ELSE <<LINEA_FALLIDA, "">> \o errores,
     nombre |-> <<"reporte_errores_", splitext_root(basename(nombre_archivo)),
                  "_", strftime(t), ".txt">>]

----------------------------------------------------------------------------
(* The table of downloads: a Python dict, kept as the sequence of its      *)
(* items [token, item] in insertion order; an item is the stored tuple     *)
(* <<data, filename, media_type, expires_at>>                              *)

Keys(D) == {D[i].token : i \in 1..Len(D)}

\* D.get(token): the stored tuple, or <<>> for None (both are falsy)
dict_get(D, token) ==
    IF token \in Keys(D)
    THEN D[CHOOSE i \in 1..Len(D) : D[i].token = token].item
    ELSE <<>>

\* D.pop(token, None)
dict_pop(D, token) == SelectSeq(D, LAMBDA e : e.token # token)

\* D[token] = item: an existing key keeps its place, a new key goes last
dict_set(D, token, item) ==
    IF token \in Keys(D)
    THEN [i \in 1..Len(D) |->
            IF D[i].token = token THEN [token |-> token, item |-> item]
            ELSE D[i]]
    ELSE Append(D, [token |-> token, item |-> item])

\* IsExpired with the comparison exp < now: an entry expiring at this very
\* second is kept
IsExpired_strict(e, t) == e.item[4] < t

\* the test of the list comprehension of cleanup_downloads on one item
IsExpired(e, t) == e.item[4] <= t

\* expired = [t for t, (_, _, _, exp) in DOWNLOADS.items() if exp <= now]
ExpiredList(D, t) ==
    LET hit == SelectSeq(D, LAMBDA e : IsExpired(e, t))
    IN  [i \in 1..Len(hit) |-> hit[i].token]

\* PopAll leaving the loop after its first pop
PopAll_first_only(D, expired) ==
    IF expired = <<>> THEN D ELSE dict_pop(D, Head(expired))

\* for t in expired: DOWNLOADS.pop(t, None)
RECURSIVE PopAll(_, _)
PopAll(D, expired) ==
    IF expired = <<>> THEN D
    ELSE PopAll(dict_pop(D, Head(expired)), Tail(expired))

\* cleanup_downloads emptying the table: DOWNLOADS.clear()
cleanup_downloads_clear(D, t) == <<>>

\* cleanup_downloads() run at clock reading t without interruption
cleanup_downloads(D, t) == PopAll(D, ExpiredList(D, t))

\* lines 101-104 of register_download at clock reading t: token is the
\* value secrets.token_urlsafe(16) returned
register_insert(D, data, filename, media_type, token, t) ==
    dict_set(D, token, <<data, filename, media_type, t + DOWNLOAD_TTL_SECS>>)

\* register_download(data, filename, media_type) run without interruption:
\* the sweep reads the clock at t1, expires_at is computed at t2 >= t1
register_download(D, data, filename, media_type, token, t1, t2) ==
    register_insert(cleanup_downloads(D, t1), data, filename, media_type,
                    token, t2)

\* data, exp = item: unpacking into two names needs a tuple of length two,
\* any other length raises ValueError
Unpack2(item) ==
    IF Len(item) = 2
    THEN [ok |-> TRUE, data |-> item[1], exp |-> item[2]]
    ELSE [ok |-> FALSE, data |-> <<>>, exp |-> 0]

\* a response: HTTP status, detail of an error, and the fields of a success
Response(op, token, status, detail, data, filename, media_type, errores) ==
    [op |-> op, token |-> token, status |-> status, detail |-> detail,
     data |-> data, filename |-> filename, media_type |-> media_type,
     errores |-> errores]

HttpError(op, token, status, detail) ==
    Response(op, token, status, detail, <<>>, <<>>, "", 0)

\* download_token answering from the stored tuple by position, without the
\* sweep and without the expiry test
download_token_no_expiry(D, token, t1, t2) ==
    LET item == dict_get(D, token)
    IN  IF item = <<>>
        THEN [resp |-> HttpError("download", token, 404, "Link expirado o inválido"),
              store |-> D]
        ELSE [resp |-> Response("download", token, 200, "", item[1],
                                <<"reporte_errores_", strftime(t2), ".txt">>,
                                "text/plain", 0),
              store |-> D]

\* download_token reading the entry with DOWNLOADS.pop(token, None): the
\* token is used up by the first read
download_token_single_use(D, token, t1, t2) ==
    LET D1 == cleanup_downloads(D, t1)
        item == dict_get(D1, token)
        u == Unpack2(item)
    IN  IF item = <<>>
        THEN [resp |-> HttpError("download", token, 404, "Link expirado o inválido"),
              store |-> D1]
        ELSE IF ~u.ok
        THEN [resp |-> HttpError("download", token, 500, "ValueError"),
              store |-> dict_pop(D1, token)]
        ELSE IF u.exp <= t2
        THEN [resp |-> HttpError("download", token, 410, "Link expirado"),
              store |-> dict_pop(D1, token)]
        ELSE [resp |-> Response("download", token, 200, "", u.data,
                                <<"reporte_errores_", strftime(t2), ".txt">>,
                                "text/plain", 0),
              store |-> dict_pop(D1, token)]

\* lines 138-151 of download_token at clock reading t: the response and the
\* table the lookup leaves behind
download_lookup(D, token, t) ==
    LET item == dict_get(D, token)
        u == Unpack2(item)
    IN  IF item = <<>>
        THEN [resp |-> HttpError("download", token, 404, "Link expirado o inválido"),
              store |-> D]
        ELSE IF ~u.ok
        THEN [resp |-> HttpError("download", token, 500, "ValueError"),
              store |-> D]
        ELSE IF u.exp <= t
        THEN [resp |-> HttpError("download", token, 410, "Link expirado"),
              store |-> dict_pop(D, token)]
        ELSE [resp |-> Response("download", token, 200, "", u.data,
                                <<"reporte_errores_", strftime(t), ".txt">>,
                                "text/plain", 0),
              store |-> D]

\* download_token(token) run without interruption: the sweep reads the
\* clock at t1, the expiry test and the file name read it at t2 >= t1
download_token(D, token, t1, t2) ==
    download_lookup(cleanup_downloads(D, t1), token, t2)

----------------------------------------------------------------------------
(* Requests *)

F_xlsx == <<"m", ".", "x", "l", "s", "x">>
F_XLSX == <<"m", ".", "X", "L", "S", "X">>
F_txt == <<"m", ".", "t", "x", "t">>

\* file names of uploads
FileNames == {F_xlsx, F_XLSX, F_txt}

S_q == <<"q">>

\* headers as expected, two different questions: no finding
G_ok ==
    <<<<Str(S_Capitulo), Str(<<" ">> \o S_Subcapitulo), Str(S_Preguntas)>>,
      <<Str(<<"a">>), None, Str(S_q)>>,
      <<Num(7), None, Str(<<"r">>)>>>>

\* a number and a missing value as headers, the same question in rows 2
\* and 4, forbidden characters in A2 and C3: findings of all three checks
G_bad ==
    <<<<Num(0), Str(S_Subcapitulo), None>>,
      <<Str(<<"a", "!", "@">>), Str(<<"b">>), Str(S_q)>>,
      <<None, None, Str(<<"r", ";">>)>>,
      <<None, Num(7), Str(S_q \o <<" ">>)>>>>

Grids == {G_ok, G_bad}

\* an upload's bytes: either openpyxl cannot load them or they hold a sheet
Unparseable == [ok |-> FALSE, sheet |-> <<>>]
Docs == {Unparseable} \cup {[ok |-> TRUE, sheet |-> g] : g \in Grids}

\* Errores returning as soon as the header check has findings
Errores_short_circuit(sheet) ==
    IF validar_encabezados(sheet) # <<>>
    THEN validar_encabezados(sheet)
    ELSE buscar_preguntas_duplicadas(sheet)
             \o buscar_caracteres_prohibidos(sheet)

\* Errores with the duplicate check extended first
Errores_duplicates_first(sheet) ==
    buscar_preguntas_duplicadas(sheet)
        \o validar_encabezados(sheet)
        \o buscar_caracteres_prohibidos(sheet)

\* lines 118-121 of validar_excel: the three checks in their fixed order
Errores(sheet) ==
    validar_encabezados(sheet)
        \o buscar_preguntas_duplicadas(sheet)
        \o buscar_caracteres_prohibidos(sheet)

NoDoc == [ok |-> FALSE, sheet |-> <<>>]

\* no response yet
NoResp == HttpError("none", "", 0, "")

\* validar_excel is a coroutine of the one event-loop thread, so its calls
\* follow one another; download_token is a plain function, which the server
\* runs on a thread of its pool, alongside the event loop
Workers == {"w1"}
Threads == {"loop"} \cup Workers

NoRep == [data |-> <<>>, nombre |-> <<>>]

\* a thread between two requests; res is its last response
IdleThread ==
    [pc |-> "idle", op |-> "none", token |-> "", rep |-> NoRep, errores |-> 0,
     c_now |-> 0, it_used |-> 0, it_len |-> 0, it_pos |-> 0, expired |-> <<>>,
     served |-> 0, res |-> NoResp]

\* the record of a served request
Call(op, token, filename, doc, t0, t1, store) ==
    [op |-> op, token |-> token, filename |-> filename, doc |-> doc,
     t0 |-> t0, t1 |-> t1, store |-> store]

NoCall == Call("none", "", <<>>, NoDoc, 0, 0, <<>>)

\* what is known of a sheet before any check has run
NewRun(pc, sheet) ==
    [pc |-> pc, sheet |-> sheet, enc |-> <<>>, dup |-> <<>>, pro |-> <<>>,
     errores |-> <<>>, data |-> <<>>]

\* no sheet under inspection
NoRun == NewRun("none", <<>>)

Init ==
    /\ DOWNLOADS = <<>>
    /\ now = 0
    /\ call = NoCall
    /\ resp = NoResp
    /\ issued = <<>>
    /\ th = [p \in Threads |-> IdleThread]
    /\ eng = NoRun

\* the wall clock advances
Tick ==
    /\ now + ClockStep <= MaxTime
    /\ now' = now + ClockStep
    /\ UNCHANGED <<DOWNLOADS, call, resp, issued, th, eng>>

\* the clock readings a handler can make after a first reading at t
LaterReadings(t) == {t} \cup {t2 \in {t + ClockStep} : t2 <= MaxTime}

\* Rejection without the test of the file name's extension
Rejection_no_extension_test(filename, doc) ==
    IF ~doc.ok
    THEN HttpError("validar", "", 500, "Error procesando el archivo")
    ELSE HttpError("none", "", 0, "")

\* lines 111-115 of validar_excel: the error a rejected upload is answered
\* with, NoResp for an upload that reaches the checks
Rejection(filename, doc) ==
    IF ~endswith(lower(filename), <<".", "x", "l", "s", "x">>)
    THEN HttpError("validar", "", 400, "El archivo debe ser .xlsx")
    ELSE IF ~doc.ok
    THEN HttpError("validar", "", 500, "Error procesando el archivo")
    ELSE NoResp

\* validar_excel(file) on the table D: the response, the table it leaves
\* and what it registered; the clock reads t1 in generar_reporte and in the
\* sweep, t2 when expires_at is computed
validar_excel(D, filename, doc, token, t1, t2) ==
    IF Rejection(filename, doc) # NoResp
    THEN [resp |-> Rejection(filename, doc), store |-> D, registered |-> <<>>]
    ELSE LET errores == Errores(doc.sheet)
             rep == generar_reporte(errores, filename, t1)
         IN  [resp |-> Response("validar", token, 200, "", <<>>, <<>>, "",
                                Len(errores)),
              store |-> register_download(D, rep.data, rep.nombre,
                                          TXT_MEDIA_TYPE, token, t1, t2),
              registered |-> <<[token |-> token, data |-> rep.data]>>]

\* POST /validar/ served without interruption
Validate(filename, doc, token) ==
    /\ \E t2 \in LaterReadings(now) :
         LET r == validar_excel(DOWNLOADS, filename, doc, token, now, t2)
         IN  /\ Len(issued) + Len(r.registered) <= MaxRegs
             /\ DOWNLOADS' = r.store
             /\ resp' = r.resp
             /\ issued' = issued \o r.registered
             /\ now' = IF r.registered = <<>> THEN now ELSE t2
             /\ call' = Call("validar", "", filename, doc, now, now', DOWNLOADS)
    /\ UNCHANGED <<th, eng>>

\* GET /download/{token} served without interruption
Download(token) ==
    /\ \E t2 \in LaterReadings(now) :
         LET r == download_token(DOWNLOADS, token, now, t2)
         IN  /\ DOWNLOADS' = r.store
             /\ resp' = r.resp
             /\ now' = t2
             /\ call' = Call("download", token, <<>>, NoDoc, now, t2, DOWNLOADS)
    /\ UNCHANGED <<issued, th, eng>>

Next ==
    \/ Tick
    \/ \E filename \in FileNames, doc \in Docs, token \in Tokens :
         Validate(filename, doc, token)
    \/ \E token \in Tokens : Download(token)

Spec == Init /\ [][Next]_vars

----------------------------------------------------------------------------
(* SpecC: the handlers as threads. A step is one operation on the shared   *)
(* table (creating the iterator, one next(), one pop, the insert, the      *)
(* lookup); what a thread computes on its own goes with the step before.   *)

\* the thread enters cleanup_downloads: now = datetime.utcnow() and the
\* iterator of DOWNLOADS.items(), which notes the size of the dict
EnterSweep(t, op, token, rep, errores) ==
    [t EXCEPT !.pc = "iter", !.op = op, !.token = token, !.rep = rep,
              !.errores = errores, !.c_now = now,
              !.it_used = Len(DOWNLOADS), !.it_len = Len(DOWNLOADS),
              !.it_pos = 0, !.expired = <<>>]

\* the request of a thread ends with response r: its locals are dropped
Finish(t, r) == [IdleThread EXCEPT !.served = t.served, !.res = r]

\* the clock of SpecC runs for two steps: one DOWNLOAD_TTL_SECS at the
\* step of 300 seconds
MaxTimeC == 2 * ClockStep

\* the wall clock advances
TickC ==
    /\ now + ClockStep <= MaxTimeC
    /\ now' = now + ClockStep
    /\ UNCHANGED <<DOWNLOADS, call, resp, issued, th, eng>>

\* a RuntimeError of the dict iterator: validar_excel catches it and raises
\* HTTPException(500), download_token lets it through to the server (500)
IterError(t, detail) == Finish(t, HttpError(t.op, t.token, 500, detail))

\* a pop frees the slot of the entry; an iterator that has passed the slot
\* has one entry less behind it
AfterPop(T, token) ==
    LET k == IF token \in Keys(DOWNLOADS)
             THEN CHOOSE i \in 1..Len(DOWNLOADS) : DOWNLOADS[i].token = token
             ELSE 0
    IN  [q \in Threads |->
           IF T[q].pc = "iter" /\ k > 0 /\ k <= T[q].it_pos
           THEN [T[q] EXCEPT !.it_pos = T[q].it_pos - 1]
           ELSE T[q]]

\* POST /validar/ arrives: lines 111-124 and the entry into register_download
StartValidate(filename, doc) ==
    /\ th["loop"].pc = "idle"
    /\ Len(issued) < MaxRegs
    /\ LET t == th["loop"]
           errores == Errores(doc.sheet)
       IN  th' = [th EXCEPT !["loop"] =
                    IF Rejection(filename, doc) # NoResp
                    THEN Finish(t, Rejection(filename, doc))
                    ELSE EnterSweep(t, "validar", "",
                                    generar_reporte(errores, filename, now),
                                    Len(errores))]
    /\ UNCHANGED <<DOWNLOADS, now, call, resp, issued, eng>>

\* GET /download/{token} is given to worker p: line 137
StartDownload(p, token) ==
    /\ th[p].pc = "idle"
    /\ th[p].served < MaxDownloads
    /\ th' = [th EXCEPT ![p] =
                EnterSweep([th[p] EXCEPT !.served = th[p].served + 1],
                           "download", token, NoRep, 0)]
    /\ UNCHANGED <<DOWNLOADS, now, call, resp, issued, eng>>

\* one next() of the iterator in the list comprehension of line 95
SweepNext(p) ==
    /\ th[p].pc = "iter"
    /\ LET t == th[p]
       IN  th' = [th EXCEPT ![p] =
             IF Len(DOWNLOADS) # t.it_used
             THEN IterError(t, "RuntimeError: dictionary changed size during iteration")
             ELSE IF t.it_pos >= Len(DOWNLOADS)
             THEN [t EXCEPT !.pc = IF t.expired = <<>> THEN "body" ELSE "pop"]
             ELSE IF t.it_len = 0
             THEN IterError(t, "RuntimeError: dictionary keys changed during iteration")
             ELSE LET e == DOWNLOADS[t.it_pos + 1]
                  IN  [t EXCEPT !.it_pos = t.it_pos + 1, !.it_len = t.it_len - 1,
                                !.expired = IF IsExpired(e, t.c_now)
                                            THEN Append(t.expired, e.token)
                                            ELSE t.expired]]
    /\ UNCHANGED <<DOWNLOADS, now, call, resp, issued, eng>>

\* one DOWNLOADS.pop(t, None) of the loop of lines 96-97
SweepPop(p) ==
    /\ th[p].pc = "pop"
    /\ LET t == th[p]
           T == [th EXCEPT ![p] =
                   [t EXCEPT !.expired = Tail(t.expired),
                             !.pc = IF Tail(t.expired) = <<>> THEN "body" ELSE "pop"]]
       IN  /\ DOWNLOADS' = dict_pop(DOWNLOADS, Head(t.expired))
           /\ th' = AfterPop(T, Head(t.expired))
    /\ UNCHANGED <<now, call, resp, issued, eng>>

\* lines 101-104 of register_download and the rest of validar_excel
Insert(token) ==
    /\ th["loop"].pc = "body"
    /\ LET t == th["loop"]
       IN  /\ DOWNLOADS' = register_insert(DOWNLOADS, t.rep.data, t.rep.nombre,
                                           TXT_MEDIA_TYPE, token, now)
           /\ issued' = Append(issued, [token |-> token, data |-> t.rep.data])
           /\ th' = [th EXCEPT !["loop"] =
                       Finish(t, Response("validar", token, 200, "", <<>>, <<>>,
                                          "", t.errores))]
    /\ UNCHANGED <<now, call, resp, eng>>

\* lines 138-151 of download_token on worker p
Lookup(p) ==
    /\ p \in Workers
    /\ th[p].pc = "body"
    /\ LET r == download_lookup(DOWNLOADS, th[p].token, now)
           T == [th EXCEPT ![p] = Finish(th[p], r.resp)]
       IN  /\ DOWNLOADS' = r.store
           /\ th' = IF r.store = DOWNLOADS THEN T ELSE AfterPop(T, th[p].token)
    /\ UNCHANGED <<now, call, resp, issued, eng>>

NextC ==
    \/ TickC
    \/ \E filename \in FileNames, doc \in Docs : StartValidate(filename, doc)
    \/ \E p \in Workers, token \in Tokens : StartDownload(p, token)
    \/ \E p \in Threads : SweepNext(p)
    \/ \E p \in Threads : SweepPop(p)
    \/ \E token \in Tokens : Insert(token)
    \/ \E p \in Workers : Lookup(p)

SpecC == Init /\ [][NextC]_vars

----------------------------------------------------------------------------
(* SpecR: the rule engine and the report generator on a sheet drawn from   *)
(* SheetsR, applied in the order of lines 119-124 of validar_excel         *)

\* the sheets of SpecR have up to MaxBodyRows rows below the header row
MaxBodyRows == 3

\* values of a header cell of column col: the expected label, plain and
\* with blanks around it, no value, the number 0, another text
HeaderCells(col) ==
    {Str(ENCABEZADOS_ESPERADOS[col]),
     Str(<<" ">> \o ENCABEZADOS_ESPERADOS[col] \o <<"\t">>),
     None, Num(0), Str(<<"x", "=", "¡">>)}

HeaderRows ==
    {<<a, b, c>> : a \in HeaderCells(1), b \in HeaderCells(2), c \in HeaderCells(3)}

HeaderOk == <<Str(S_Capitulo), Str(S_Subcapitulo), Str(S_Preguntas)>>
HeaderBad == <<Str(S_Subcapitulo), None, Str(S_Preguntas \o <<"\n">>)>>

\* values of a cell of column C below the header: no value, numbers, the
\* text of a number, a question plain and with a blank before it, a text
\* of two lines with forbidden characters
QuestionCells ==
    {None, Num(0), Num(7), Str(<<"7">>), Str(S_q), Str(<<" ">> \o S_q),
     Str(<<"q", "\n", "@", "!">>)}

\* rows below the header: a question in C, or a text with forbidden
\* characters in A
BodyRows ==
    {<<None, None, c>> : c \in QuestionCells}
        \cup {<<Str(<<"a", "(", ")">>), None, None>>}

\* the sequences of n rows
RECURSIVE BodiesOfLen(_)
BodiesOfLen(n) ==
    IF n = 0 THEN {<<>>}
    ELSE {Append(b, r) : b \in BodiesOfLen(n - 1), r \in BodyRows}

Bodies == UNION {BodiesOfLen(n) : n \in 0..MaxBodyRows}

\* sheets of fewer than three columns
NarrowSheets ==
    {<<<<Str(S_Capitulo)>>>>,
     <<<<Str(S_Capitulo), Str(S_Subcapitulo)>>, <<Str(<<"a", "|">>), Num(7)>>>>}

SheetsR ==
    {<<h>> : h \in HeaderRows}
        \cup {<<h>> \o b : h \in {HeaderOk, HeaderBad}, b \in Bodies}
        \cup NarrowSheets

InitR ==
    /\ DOWNLOADS = <<>>
    /\ now = 0
    /\ call = NoCall
    /\ resp = NoResp
    /\ issued = <<>>
    /\ th = [p \in Threads |-> IdleThread]
    /\ eng \in {NewRun("enc", sheet) : sheet \in SheetsR}

\* validar_encabezados(sheet)
RunEncabezados ==
    /\ eng.pc = "enc"
    /\ eng' = [eng EXCEPT !.pc = "dup", !.enc = validar_encabezados(eng.sheet)]
    /\ UNCHANGED <<DOWNLOADS, now, call, resp, issued, th>>

\* buscar_preguntas_duplicadas(sheet)
RunDuplicadas ==
    /\ eng.pc = "dup"
    /\ eng' = [eng EXCEPT !.pc = "pro",
                          !.dup = buscar_preguntas_duplicadas(eng.sheet)]
    /\ UNCHANGED <<DOWNLOADS, now, call, resp, issued, th>>

\* buscar_caracteres_prohibidos(sheet)
RunProhibidos ==
    /\ eng.pc = "pro"
    /\ eng' = [eng EXCEPT !.pc = "errores",
                          !.pro = buscar_caracteres_prohibidos(eng.sheet)]
    /\ UNCHANGED <<DOWNLOADS, now, call, resp, issued, th>>

\* the list errores of validar_excel after its three extend calls
RunErrores ==
    /\ eng.pc = "errores"
    /\ eng' = [eng EXCEPT !.pc = "reporte", !.errores = Errores(eng.sheet)]
    /\ UNCHANGED <<DOWNLOADS, now, call, resp, issued, th>>

\* generar_reporte(errores, file.filename): the bytes of the report
RunReporte ==
    /\ eng.pc = "reporte"
    /\ eng' = [eng EXCEPT !.pc = "done",
                          !.data = generar_reporte(eng.errores, F_xlsx, now).data]
    /\ UNCHANGED <<DOWNLOADS, now, call, resp, issued, th>>

NextR ==
    \/ RunEncabezados
    \/ RunDuplicadas
    \/ RunProhibidos
    \/ RunErrores
    \/ RunReporte

SpecR == InitR /\ [][NextR]_vars

----------------------------------------------------------------------------
(* Properties of the downloads served one at a time (Spec) *)

\* expires_at of the entry D holds for token
ExpOf(D, token) == dict_get(D, token)[4]

\* the last request was a download of a token the table held when it began
DownloadOfStored ==
    /\ call.op = "download"
    /\ call.token \in Keys(call.store)

\* the last request ran the sweep: a download, or a validation that got as
\* far as register_download
SweepingCall ==
    \/ call.op = "download"
    \/ call.op = "validar" /\ resp.status = 200

\* the token the last request inserted, if any
InsertedTokens == IF call.op = "validar" /\ resp.status = 200 THEN {resp.token} ELSE {}

\* C1: a download never answers 200 with a payload for a token whose stored
\* expires_at is <= the time at which the download answers.
C1_NoPayloadAfterExpiry ==
    (DownloadOfStored /\ ExpOf(call.store, call.token) <= call.t1)
        => resp.status # 200

\* a download of a stored token that had expired when it answered
C1_Witness ==
    /\ DownloadOfStored
    /\ ExpOf(call.store, call.token) <= call.t1
    /\ resp.status \in {404, 500}

\* C2: a download of a registered token strictly before its expires_at
\* completes with status 200 and returns exactly the registered data.
C2_RoundTrip ==
    (DownloadOfStored /\ call.t1 < ExpOf(call.store, call.token))
        => /\ resp.status = 200
           /\ resp.data = dict_get(call.store, call.token)[1]

\* C3: a download of a token whose entry has not expired leaves the entry in
\* the table with data, filename, media type and expires_at unchanged.
C3_ReadKeepsEntry ==
    (DownloadOfStored /\ call.t1 < ExpOf(call.store, call.token))
        => dict_get(DOWNLOADS, call.token) = dict_get(call.store, call.token)

\* a download of an unexpired token has been served and its entry is there
C3_Witness ==
    /\ DownloadOfStored
    /\ call.t1 < ExpOf(call.store, call.token)
    /\ call.token \in Keys(DOWNLOADS)

\* C4: the first download of a registered token whose expires_at has passed,
\* the entry still being in the table, answers 410 (Expired, not 404) and
\* removes the entry.
C4_FirstDownloadAfterExpiryIs410 ==
    (DownloadOfStored /\ ExpOf(call.store, call.token) <= call.t0)
        => /\ resp.status = 410
           /\ call.token \notin Keys(DOWNLOADS)

\* C5: register_download never returns a token that is a key of the table
\* at the moment of insertion: no register overwrites the entry of an
\* artifact that is stored and has not expired.
C5_FreshToken ==
    (call.op = "validar" /\ resp.status = 200)
        => ~ \E i \in 1..Len(call.store) :
               /\ call.store[i].token = resp.token
               /\ call.store[i].item[4] > call.t0

\* C8: when a register_download call or a download call completes, the table
\* holds no entry whose expires_at is <= the time at which the call started.
C8_SweepBeforeUse ==
    SweepingCall => \A i \in 1..Len(DOWNLOADS) : DOWNLOADS[i].item[4] > call.t0

\* a call that swept has completed, and the table it found held an entry
\* that had expired when the call started
C8_Witness ==
    /\ SweepingCall
    /\ \E i \in 1..Len(call.store) : call.store[i].item[4] <= call.t0

\* C9: the sweep removes exactly the expired entries: of the entries found,
\* those with expires_at <= now are absent afterwards and those with
\* expires_at > now are present and unchanged (the token a register then
\* inserts aside); the sweep adds nothing.
C9_SweepExact ==
    SweepingCall =>
        /\ \A i \in 1..Len(call.store) :
             LET e == call.store[i]
             IN  e.token \notin InsertedTokens =>
                   IF e.item[4] <= call.t0
                   THEN e.token \notin Keys(DOWNLOADS)
                   ELSE dict_get(DOWNLOADS, e.token) = e.item
        /\ Keys(DOWNLOADS) \subseteq Keys(call.store) \cup InsertedTokens

\* a call swept a table holding both an expired and an unexpired entry
C9_Witness ==
    /\ call.op = "download"
    /\ \E i, j \in 1..Len(call.store) :
         /\ call.store[i].item[4] <= call.t0
         /\ call.store[j].item[4] > call.t0
         /\ call.store[j].token \in Keys(DOWNLOADS)

\* the last request uploaded an accepted file name and a parseable sheet
ValidateOfParsed ==
    /\ call.op = "validar"
    /\ endswith(lower(call.filename), <<".", "x", "l", "s", "x">>)
    /\ call.doc.ok

\* C10: for every parsed grid, with or without findings, validar_excel does
\* not end in an error: it answers 200 with the token of exactly one new
\* artifact, which holds the report, and with the sum of the numbers of
\* findings of the three checks.
C10_FindingsAreNotErrors ==
    ValidateOfParsed =>
        LET n == Len(validar_encabezados(call.doc.sheet))
                   + Len(buscar_preguntas_duplicadas(call.doc.sheet))
                   + Len(buscar_caracteres_prohibidos(call.doc.sheet))
            data == dict_get(DOWNLOADS, resp.token)[1]
        IN  /\ resp.status = 200
            /\ resp.errores = n
            /\ resp.token \in Keys(DOWNLOADS)
            /\ IF n = 0 THEN data = <<LINEA_EXITOSA>>
               ELSE Len(data) = n + 2 /\ data[1] = LINEA_FALLIDA
            /\ \A i \in 1..Len(DOWNLOADS) :
                 DOWNLOADS[i].token # resp.token
                     => \E j \in 1..Len(call.store) : call.store[j] = DOWNLOADS[i]

\* a grid with findings of all three checks has been validated and its
\* report registered
C10_Witness ==
    /\ ValidateOfParsed
    /\ resp.status = 200
    /\ resp.errores > 2
    /\ Len(dict_get(DOWNLOADS, resp.token)[1]) = resp.errores + 2

----------------------------------------------------------------------------
(* Properties of the interleaved handlers (SpecC) *)

\* C6: the tokens returned by register_download calls whose steps interleave
\* with other requests are pairwise distinct, and each token that resolves
\* resolves to the data passed to the call that returned it.
C6_DistinctTokensOwnPayload ==
    /\ \A i, j \in 1..Len(issued) :
         i # j => issued[i].token # issued[j].token
    /\ \A i \in 1..Len(issued) :
         issued[i].token \in Keys(DOWNLOADS)
             => dict_get(DOWNLOADS, issued[i].token)[1] = issued[i].data

\* C7: a sweep that runs while another request inserts or removes entries
\* never fails: no request ends in an error raised by the iteration over
\* the table.
C7_SweepNeverFails ==
    \A p \in Threads :
        th[p].res.detail \notin
            {"RuntimeError: dictionary changed size during iteration",
             "RuntimeError: dictionary keys changed during iteration"}

----------------------------------------------------------------------------
(* Further properties of the requests served one at a time (Spec) *)

\* the last request uploaded a file the boundary rejects: a name that does
\* not end in .xlsx, or bytes openpyxl cannot load
ValidateOfRejected ==
    /\ call.op = "validar"
    /\ \/ ~endswith(lower(call.filename), <<".", "x", "l", "s", "x">>)
       \/ ~call.doc.ok

\* C11: a validate request rejected at the boundary is answered with an
\* error and leaves the table as it found it: same tokens, same artifacts.
C11_RejectedUploadStoresNothing ==
    ValidateOfRejected =>
        /\ resp.status \in {400, 500}
        /\ resp.token = ""
        /\ DOWNLOADS = call.store

\* a rejected upload has been answered while the table held an entry, one
\* that had even expired
C11_Witness ==
    /\ ValidateOfRejected
    /\ resp.status \in {400, 500}
    /\ \E i \in 1..Len(DOWNLOADS) : DOWNLOADS[i].item[4] <= call.t0

\* C17: a token returned by register_download differs from every token an
\* earlier register_download call returned, whether the entry of the
\* earlier one is still in the table or has expired and been removed.
C17_TokenNeverReused ==
    \A i, j \in 1..Len(issued) : i < j => issued[i].token # issued[j].token

DownloadOfUnknown ==
    /\ call.op = "download"
    /\ \A i \in 1..Len(issued) : issued[i].token # call.token

\* C19: a download of a token that no register_download call has returned
\* answers 404, adds no entry to the table and leaves every entry that had
\* not expired when the download started as it was.
C19_UnknownTokenIs404 ==
    DownloadOfUnknown =>
        /\ resp.status = 404
        /\ resp.data = <<>>
        /\ Keys(DOWNLOADS) \subseteq Keys(call.store)
        /\ \A i \in 1..Len(call.store) :
             call.store[i].item[4] > call.t0
                 => \E j \in 1..Len(DOWNLOADS) : DOWNLOADS[j] = call.store[i]

\* a download of a token never returned has been answered 404 while the
\* table held an entry that had not expired, and still holds it
C19_Witness ==
    /\ DownloadOfUnknown
    /\ resp.status = 404
    /\ \E i \in 1..Len(call.store) :
         /\ call.store[i].item[4] > call.t0
         /\ call.store[i].token \in Keys(DOWNLOADS)

----------------------------------------------------------------------------
(* Properties of the rule engine and the report generator (SpecR) *)

\* the text of a cell, trimmed; a cell without value reads as ""
TextoCelda(val) == IF val.t = "None" THEN <<>> ELSE strip(str(val))

\* the columns A, B, C (as 1, 2, 3) whose row-1 text is not the expected label
MismatchCols(sheet) ==
    {c \in 1..3 : TextoCelda(CellValue(sheet, c, 1)) # ENCABEZADOS_ESPERADOS[c]}

\* the number of the column a coordinate names
ColOf(celda) == CHOOSE c \in 1..Len(ColLetters) : ColLetters[c] = celda[1]

EncDone == eng.pc \in {"dup", "pro", "errores", "reporte", "done"}
DupDone == eng.pc \in {"pro", "errores", "reporte", "done"}
ProDone == eng.pc \in {"errores", "reporte", "done"}

\* C12: the header check yields exactly one finding for each of the columns
\* A, B, C whose trimmed row-1 value differs from the expected label, none
\* for a matching column, in column order.
C12_OneFindingPerMismatchedHeader ==
    EncDone =>
        /\ Len(eng.enc) = Cardinality(MismatchCols(eng.sheet))
        /\ \A i \in 1..Len(eng.enc) :
             /\ eng.enc[i].celda[2] = 1
             /\ ColOf(eng.enc[i].celda) \in MismatchCols(eng.sheet)
             /\ eng.enc[i].esperado = ENCABEZADOS_ESPERADOS[ColOf(eng.enc[i].celda)]
        /\ \A i, j \in 1..Len(eng.enc) :
             i < j => ColOf(eng.enc[i].celda) < ColOf(eng.enc[j].celda)

\* the header check has run on a row whose first and third labels are wrong
\* and whose second is right: two findings, for A1 and C1
C12_Witness ==
    /\ EncDone
    /\ MismatchCols(eng.sheet) = {1, 3}
    /\ Len(eng.enc) = 2
    /\ eng.enc[1].celda = <<"A", 1>>
    /\ eng.enc[2].celda = <<"C", 1>>

\* the rows 2..last whose column-C value is not empty and has trimmed text v
RowsWith(sheet, v) ==
    {r \in 2..max_row(sheet) :
        /\ CellValue(sheet, 3, r).t # "None"
        /\ TextoCelda(CellValue(sheet, 3, r)) = v}

\* the trimmed texts of the non-empty column-C cells of rows 2..last
QuestionTexts(sheet) ==
    {TextoCelda(CellValue(sheet, 3, r)) :
        r \in {x \in 2..max_row(sheet) : CellValue(sheet, 3, x).t # "None"}}

\* the elements of a set of numbers in ascending order
RECURSIVE Ascending(_)
Ascending(S) ==
    IF S = {} THEN <<>>
    ELSE LET m == CHOOSE x \in S : \A y \in S : x <= y
         IN  <<m>> \o Ascending(S \ {m})

\* C13: the duplicate check has a finding for v if and only if at least two
\* rows of 2..last hold a non-empty column-C value with trimmed text v; one
\* finding per such v, listing exactly those rows in ascending order.
C13_DuplicatesExact ==
    DupDone =>
        /\ \A v \in QuestionTexts(eng.sheet) :
             Cardinality(RowsWith(eng.sheet, v)) >= 2
                 <=> \E i \in 1..Len(eng.dup) : eng.dup[i].pregunta = v
        /\ \A i, j \in 1..Len(eng.dup) :
             eng.dup[i].pregunta = eng.dup[j].pregunta => i = j
        /\ \A i \in 1..Len(eng.dup) :
             eng.dup[i].filas = Ascending(RowsWith(eng.sheet, eng.dup[i].pregunta))

\* the cells of the sheet, as <<col, row>>
CellsOf(sheet) == (1..max_column(sheet)) \X (1..max_row(sheet))

\* the positions of the forbidden characters in a cell's value; none in a
\* cell that holds no text
ForbiddenAt(val) ==
    IF val.t = "str"
    THEN {k \in 1..Len(val.v) : val.v[k] \in CARACTERES_PROHIBIDOS}
    ELSE {}

\* C14: the forbidden-character check yields, for each text cell of rows
\* 1..last, exactly one finding if the cell holds a forbidden character,
\* naming the leftmost one, and none otherwise; empty and numeric cells
\* yield none.
C14_LeftmostForbiddenOncePerCell ==
    ProDone =>
        \A cr \in CellsOf(eng.sheet) :
            LET val == eng.sheet[cr[2]][cr[1]]
                at == ForbiddenAt(val)
                found == {i \in 1..Len(eng.pro) :
                            eng.pro[i].celda = Coordinate(cr[1], cr[2])}
            IN  IF at = {} THEN found = {}
                ELSE /\ Cardinality(found) = 1
                     /\ \A i \in found :
                          /\ eng.pro[i].caracter
                                = val.v[CHOOSE k \in at : \A j \in at : k <= j]
                          /\ eng.pro[i].texto = val.v

\* the check has run on a sheet with a cell of several forbidden characters
\* and a numeric cell: the finding names the first of them
C14_Witness ==
    /\ ProDone
    /\ \E i \in 1..Len(eng.pro) :
         /\ eng.pro[i].texto = <<"q", "\n", "@", "!">>
         /\ eng.pro[i].caracter = "@"
    /\ \E cr \in CellsOf(eng.sheet) : eng.sheet[cr[2]][cr[1]].t = "int"

\* which check a finding comes from: 1 header, 2 duplicates, 3 forbidden
Rank(f) ==
    CASE f.msg = "Celda {} debería contener '{}', pero tiene '{}'" -> 1
      [] f.msg = "Pregunta duplicada en filas {}: '{}'" -> 2
      [] f.msg = "Celda {} contiene caracter prohibido '{}' en: '{}'" -> 3

OfRank(errores, k) == SelectSeq(errores, LAMBDA f : Rank(f) = k)

\* C15: the finding sequence of a validate run is the header findings, then
\* the duplicate findings, then the forbidden-character findings, each
\* block complete and in its own order, whatever the other checks found.
C15_HeaderDuplicatesForbidden ==
    eng.pc \in {"reporte", "done"} =>
        /\ \A i, j \in 1..Len(eng.errores) :
             i < j => Rank(eng.errores[i]) <= Rank(eng.errores[j])
        /\ OfRank(eng.errores, 1) = eng.enc
        /\ OfRank(eng.errores, 2) = eng.dup
        /\ OfRank(eng.errores, 3) = eng.pro

\* a sheet with findings of all three checks has gone through them
C15_Witness ==
    /\ eng.pc \in {"reporte", "done"}
    /\ eng.enc # <<>> /\ eng.dup # <<>> /\ eng.pro # <<>>
    /\ Len(eng.errores) = Len(eng.enc) + Len(eng.dup) + Len(eng.pro)

\* the number of occurrences of "\n" in a text
RECURSIVE CountBreaks(_)
CountBreaks(s) ==
    IF s = <<>> THEN 0
    ELSE (IF Head(s) = "\n" THEN 1 ELSE 0) + CountBreaks(Tail(s))

\* the line breaks inside the message of a finding: those of the cell text
\* it quotes
BreaksIn(f) ==
    CASE Rank(f) = 1 -> CountBreaks(f.valor)
      [] Rank(f) = 2 -> CountBreaks(f.pregunta)
      [] Rank(f) = 3 -> CountBreaks(f.texto)

\* the line breaks inside the messages of a sequence of findings
RECURSIVE TotalBreaks(_)
TotalBreaks(errores) ==
    IF errores = <<>> THEN 0
    ELSE BreaksIn(Head(errores)) + TotalBreaks(Tail(errores))

\* the number of lines of the pieces from the i-th on
RECURSIVE LinesFrom(_, _)
LinesFrom(data, i) ==
    IF i > Len(data) THEN 0
    ELSE 1 + (IF i > 2 THEN BreaksIn(data[i]) ELSE 0) + LinesFrom(data, i + 1)

\* the number of lines of the report text
LineCount(data) == LinesFrom(data, 1)

\* the success piece alone iff there is no finding; otherwise the failure
\* header, an empty piece and the findings' messages in the order and
\* number given
ReportPieces ==
    /\ (eng.data = <<LINEA_EXITOSA>>) <=> (eng.errores = <<>>)
    /\ eng.errores # <<>> =>
         /\ Len(eng.data) = Len(eng.errores) + 2
         /\ eng.data[1] = LINEA_FALLIDA
         /\ eng.data[2] = ""
         /\ \A i \in 1..Len(eng.errores) : eng.data[i + 2] = eng.errores[i]

\* C16: the report is the single success line iff there is no finding;
\* otherwise it is the failure header line, one blank line and then one
\* line per finding, in the order and number of the findings.
C16_OneLinePerFinding ==
    eng.pc = "done" =>
        /\ ReportPieces
        /\ eng.errores # <<>> => LineCount(eng.data) = Len(eng.errores) + 2

\* The pieces of a generated report are exact, and its lines are the header,
\* the empty line and, for each finding, one line more than the line breaks
\* of the text it quotes.
ReportMessagesExact ==
    eng.pc = "done" =>
        /\ ReportPieces
        /\ eng.errores # <<>> =>
             LineCount(eng.data)
                 = 2 + Len(eng.errores) + TotalBreaks(eng.errores)

====
